---- MODULE Spec2Model ----
(***************************************************************************)
(* A state-machine model of cave_maker.py: the CaveSlice column with its   *)
(* four bounded mutators, the Cave scrolling buffer (Cave.__next__), the   *)
(* Ship flight state, and the tick loop of main().                         *)
(*                                                                         *)
(* Python values are modelled as follows.                                  *)
(*   - a CaveSlice is a record [max_height, min_opening, ceiling, floor,   *)
(*     ship_position]; ship_position is the empty set for None and {p}     *)
(*     for the integer p;                                                  *)
(*   - a Python list is a sequence; list index i (0-based, negative from   *)
(*     the end) is translated by PyIndex, and an index outside the list    *)
(*     raises IndexError;                                                  *)
(*   - an uncaught exception is recorded in the variable raised and ends   *)
(*     the program: nothing runs after it;                                 *)
(*   - random() > 0.5 is a Boolean drawn with \E;                          *)
(*   - a Python str is a sequence of one-character strings;                *)
(*   - a is b on two equal integers is true inside the interpreter's       *)
(*     small-integer cache and otherwise whatever the interpreter does     *)
(*     with two equal integer objects: a Boolean drawn with \E;            *)
(*   - Python integers are unbounded, so no arithmetic wraps.              *)
(***************************************************************************)
EXTENDS Integers, Sequences, FiniteSets, TLC

VARIABLES
    max_height,         \* Cave.max_height
    min_opening,        \* Cave.min_opening
    width,              \* the width argument of Cave.__init__
    cave_buffer,        \* Cave.cave_buffer
    key_frame,          \* Cave.key_frame
    position,           \* Ship.position
    last_thrust,        \* Ship.last_thrust (the spec's fallAcceleration)
    has_crashed,        \* Ship.has_crashed
    raised,             \* "none", or the exception that ended the program
    pc,                 \* the position of main()'s loop
    screen,             \* the text main() has put on stdscr
    falls_since_thrust, \* history: fall() calls since the last thrust()
    live_falls          \* history: of those, the calls made while not crashed

caveVars == <<max_height, min_opening, width, cave_buffer, key_frame>>
shipVars == <<position, last_thrust, has_crashed>>
histVars == <<falls_since_thrust, live_falls>>
vars == <<max_height, min_opening, width, cave_buffer, key_frame, position,
          last_thrust, has_crashed, raised, pc, screen, falls_since_thrust,
          live_falls>>

----------------------------------------------------------------------------
(* Bounds of the model.                                                    *)

MaxHeight == 4
MaxWidth == 5
\* how far below row 0 a ceiling (above row max_height - 1 a floor) is followed
MaxSink == 0
\* thrust() is followed while position stays <= MaxPosition
MaxPosition == 6
\* fall() is followed for at most MaxFalls calls since the last thrust()
MaxFalls == 3
\* the heights of the caves whose ship is moved and plotted
ApiMaxHeight == 2
\* the widths of the caves on which every call is interleaved with crash()
NarrowMaxWidth == 2
\* heights of the caves the game loop is followed in
GameMaxHeight == 3
\* the heights of the slices whose mutators are called one by one
SliceMaxHeight == 6

----------------------------------------------------------------------------
(* CaveSlice                                                               *)

None == {}

\* CaveSlice.__init__ with both ceiling and floor given
CaveSlice(mh, mo, c, f) ==
    [max_height |-> mh, min_opening |-> mo, ceiling |-> c, floor |-> f,
     ship_position |-> None]

\* CaveSlice.__init__ with the defaults ceiling=None, floor=0
init_cave_slice(mh, mo) == CaveSlice(mh, mo, mh - 1, 0)

at_min_opening(s) == (s.ceiling - s.floor) = s.min_opening

\* raise_ceiling with the bound tested one row too high
raise_ceiling_past_top(s) ==
    IF s.ceiling <= s.max_height - 1
    THEN [s EXCEPT !.ceiling = @ + 1]
    ELSE s

raise_ceiling(s) ==
    IF s.ceiling < s.max_height - 1
    THEN [s EXCEPT !.ceiling = @ + 1]
    ELSE s

\* lower_ceiling without its minimum-opening guard
lower_ceiling_unguarded(s) == [s EXCEPT !.ceiling = @ - 1]

lower_ceiling(s) ==
    IF ~at_min_opening(s)
    THEN [s EXCEPT !.ceiling = @ - 1]
    ELSE s

raise_floor(s) ==
    IF ~at_min_opening(s)
    THEN [s EXCEPT !.floor = @ + 1]
    ELSE s

lower_floor(s) ==
    IF s.floor > 0
    THEN [s EXCEPT !.floor = @ - 1]
    ELSE s

----------------------------------------------------------------------------
(* Python lists                                                            *)

\* the 1-based place of Python index i in a list of length n (0 when the
\* index is out of range, where Python raises IndexError)
PyIndex(n, i) ==
    IF i >= 0 /\ i < n THEN i + 1
    ELSE IF i < 0 /\ -i <= n THEN n + i + 1
    ELSE 0

----------------------------------------------------------------------------
(* Cave                                                                    *)

\* the head of the list, taken where __next__ takes the tail
first_slice(buffer) == buffer[PyIndex(Len(buffer), 0)]

\* last_slice = self.cave_buffer[-1]
last_slice(buffer) == buffer[PyIndex(Len(buffer), -1)]

\* next_slice with the floor moved before the ceiling
next_slice_floor_first(last, ceiling_up, floor_up) ==
    LET s0 == CaveSlice(last.max_height, last.min_opening, last.ceiling, last.floor)
        s1 == IF floor_up THEN raise_floor(s0) ELSE lower_floor(s0)
    IN  IF ceiling_up THEN raise_ceiling(s1) ELSE lower_ceiling(s1)

\* the slice Cave.__next__ appends: a clone of the last slice, its ceiling moved
\* by the first draw and then its floor by the second
next_slice(last, ceiling_up, floor_up) ==
    LET s0 == CaveSlice(last.max_height, last.min_opening, last.ceiling, last.floor)
        s1 == IF ceiling_up THEN raise_ceiling(s0) ELSE lower_ceiling(s0)
    IN  IF floor_up THEN raise_floor(s1) ELSE lower_floor(s1)

\* the slice is within the rows the model follows
InSink(s) ==
    /\ s.ceiling >= 0 - MaxSink
    /\ s.floor <= s.max_height - 1 + MaxSink

\* __next__ that deletes the newest slice, not the oldest
Cave_next_drops_tail ==
    /\ raised = "none"
    /\ Len(cave_buffer) >= 1
    /\ LET rest == SubSeq(cave_buffer, 1, Len(cave_buffer) - 1)
       IN  IF PyIndex(Len(rest), -1) = 0
           THEN /\ cave_buffer' = rest
                /\ raised' = "IndexError"
           ELSE \E ceiling_up, floor_up \in BOOLEAN :
                  LET s == next_slice(last_slice(rest), ceiling_up, floor_up)
                  IN  /\ InSink(s)
                      /\ cave_buffer' = Append(rest, s)
                      /\ raised' = raised
    /\ UNCHANGED <<max_height, min_opening, width, key_frame>>
    /\ UNCHANGED shipVars
    /\ UNCHANGED histVars

\* Cave.__next__: del cave_buffer[0]; cave_buffer[-1] raises IndexError on
\* the empty list, after the deletion
Cave_next ==
    /\ raised = "none"
    /\ Len(cave_buffer) >= 1
    /\ LET rest == Tail(cave_buffer)
       IN  IF PyIndex(Len(rest), -1) = 0
           THEN /\ cave_buffer' = rest
                /\ raised' = "IndexError"
           ELSE \E ceiling_up, floor_up \in BOOLEAN :
                  LET s == next_slice(last_slice(rest), ceiling_up, floor_up)
                  IN  /\ InSink(s)          \* bound of the model, not of the code
                      /\ cave_buffer' = Append(rest, s)
                      /\ raised' = raised
    /\ UNCHANGED <<max_height, min_opening, width, key_frame>>
    /\ UNCHANGED shipVars
    /\ UNCHANGED histVars

\* the tails that some number of __next__ calls can append after those of S
RECURSIVE TailsClosure(_)
TailsClosure(S) ==
    LET N == S \cup {t \in {next_slice(s, ceiling_up, floor_up) :
                                s \in S, ceiling_up \in BOOLEAN, floor_up \in BOOLEAN} :
                           InSink(t)}
    IN  IF N = S THEN S ELSE TailsClosure(N)

\* the tails a cave of mh rows, w slices and minimum opening mo can have
\* after construction and any number of __next__ calls; __next__ appends
\* nothing when the list is empty after the deletion
ReachableTails(mh, w, mo) ==
    IF PyIndex(w - 1, -1) = 0
    THEN {init_cave_slice(mh, mo)}
    ELSE TailsClosure({init_cave_slice(mh, mo)})

----------------------------------------------------------------------------
(* Rendering                                                               *)

SHIP_CHAR == "x"

\* the largest integer of the interpreter's small-integer cache (-5..256 in
\* CPython): equal integers in it are one object
PySmallIntMax == 256

\* i is marker, for a row i of range(max_height) and a marker that is None
\* or an integer the ship computed; big_is is what the interpreter answers
\* for two equal integers outside the cache
PyIs(i, marker, big_is) ==
    /\ marker = {i}
    /\ (i >= -5 /\ i <= PySmallIntMax) \/ big_is

\* CaveSlice.build_slice: the column of a slice, top row first
build_slice(s, big_is) ==
    <<"*">>
    \o [k \in 1..s.max_height |->
          LET i == s.max_height - k
          IN  IF i = s.ceiling \/ i = s.floor THEN "_"
              ELSE IF PyIs(i, s.ship_position, big_is) THEN SHIP_CHAR
              ELSE " "]
    \o <<"*">>

\* zip(*flipped): one row per place present in every column
Zip(flipped) ==
    IF flipped = <<>> THEN <<>>
    ELSE LET n == CHOOSE m \in {Len(flipped[j]) : j \in 1..Len(flipped)} :
                      \A j \in 1..Len(flipped) : m <= Len(flipped[j])
         IN  [r \in 1..n |-> [j \in 1..Len(flipped) |-> flipped[j][r]]]

\* "\n".join(lines), each line already the concatenation of its characters
\* (joined by halves, which keeps the recursion shallow on tall caves)
RECURSIVE JoinLines(_)
JoinLines(lines) ==
    IF lines = <<>> THEN <<>>
    ELSE IF Len(lines) = 1 THEN lines[1]
    ELSE LET half == Len(lines) \div 2
         IN  JoinLines(SubSeq(lines, 1, half))
             \o <<"\n">>
             \o JoinLines(SubSeq(lines, half + 1, Len(lines)))

\* __str__ that joins the columns without transposing them
Cave_str_untransposed(buffer, big_is) ==
    JoinLines([j \in 1..Len(buffer) |-> build_slice(buffer[j], big_is)])

\* Cave.__str__
Cave_str(buffer, big_is) ==
    LET flipped == [j \in 1..Len(buffer) |-> build_slice(buffer[j], big_is)]
    IN  JoinLines(Zip(flipped))

----------------------------------------------------------------------------
(* Ship                                                                    *)

Max(a, b) == IF a >= b THEN a ELSE b

\* thrust() that leaves last_thrust as it is
thrust_keeps_last_thrust ==
    /\ raised = "none"
    /\ position + 2 <= MaxPosition
    /\ position' = position + 2
    /\ last_thrust' = last_thrust
    /\ falls_since_thrust' = 0
    /\ live_falls' = 0
    /\ UNCHANGED <<has_crashed, raised>>
    /\ UNCHANGED caveVars

\* thrust() that also takes the ship out of the crashed state
thrust_recovers ==
    /\ raised = "none"
    /\ position + 2 <= MaxPosition
    /\ position' = position + 2
    /\ last_thrust' = 0
    /\ has_crashed' = FALSE
    /\ falls_since_thrust' = 0
    /\ live_falls' = 0
    /\ UNCHANGED raised
    /\ UNCHANGED caveVars

\* thrust() that stops the ship at the top row of the cave
thrust_capped ==
    /\ raised = "none"
    /\ position + 2 <= MaxPosition
    /\ position' = IF position + 2 > max_height - 1
                   THEN Max(position, max_height - 1)
                   ELSE position + 2
    /\ last_thrust' = 0
    /\ falls_since_thrust' = 0
    /\ live_falls' = 0
    /\ UNCHANGED <<has_crashed, raised>>
    /\ UNCHANGED caveVars

thrust ==
    /\ raised = "none"
    /\ position + 2 <= MaxPosition        \* bound of the model, not of the code
    /\ position' = position + 2
    /\ last_thrust' = 0
    /\ falls_since_thrust' = 0
    /\ live_falls' = 0
    /\ UNCHANGED <<has_crashed, raised>>
    /\ UNCHANGED caveVars

\* fall() that counts the call before it subtracts
fall_increment_first ==
    /\ raised = "none"
    /\ falls_since_thrust < MaxFalls
    /\ falls_since_thrust' = falls_since_thrust + 1
    /\ IF has_crashed
       THEN UNCHANGED <<position, last_thrust, live_falls>>
       ELSE /\ last_thrust' = last_thrust + 1
            /\ position' = Max(position - last_thrust' * last_thrust', 0)
            /\ live_falls' = live_falls + 1
    /\ UNCHANGED <<has_crashed, raised>>
    /\ UNCHANGED caveVars

fall ==
    /\ raised = "none"
    /\ falls_since_thrust < MaxFalls        \* bound of the model, not of the code
    /\ falls_since_thrust' = falls_since_thrust + 1
    /\ IF has_crashed
       THEN UNCHANGED <<position, last_thrust, live_falls>>
       ELSE /\ position' = Max(position - last_thrust * last_thrust, 0)
            /\ last_thrust' = last_thrust + 1
            /\ live_falls' = live_falls + 1
    /\ UNCHANGED <<has_crashed, raised>>
    /\ UNCHANGED caveVars

\* frame = cave.cave_buffer[cave.key_frame]; frame.ship_position = position
plot_position ==
    /\ raised = "none"
    /\ LET i == PyIndex(Len(cave_buffer), key_frame)
       IN  IF i = 0
           THEN /\ raised' = "IndexError"
                /\ UNCHANGED cave_buffer
           ELSE /\ cave_buffer' = [cave_buffer EXCEPT ![i].ship_position = {position}]
                /\ raised' = raised
    /\ UNCHANGED <<max_height, min_opening, width, key_frame>>
    /\ UNCHANGED shipVars
    /\ UNCHANGED histVars

\* frame = cave.cave_buffer[cave.key_frame - 1]; frame.ship_position = None
clear ==
    /\ raised = "none"
    /\ LET i == PyIndex(Len(cave_buffer), key_frame - 1)
       IN  IF i = 0
           THEN /\ raised' = "IndexError"
                /\ UNCHANGED cave_buffer
           ELSE /\ cave_buffer' = [cave_buffer EXCEPT ![i].ship_position = None]
                /\ raised' = raised
    /\ UNCHANGED <<max_height, min_opening, width, key_frame>>
    /\ UNCHANGED shipVars
    /\ UNCHANGED histVars

crash ==
    /\ raised = "none"
    /\ has_crashed' = TRUE
    /\ UNCHANGED <<position, last_thrust, raised>>
    /\ UNCHANGED caveVars
    /\ UNCHANGED histVars

----------------------------------------------------------------------------
(* Construction: Cave(height, length, min_opening) and Ship(cave), as in   *)
(* main().                                                                 *)

\* the configurations main() is started with: positive integers, with
\* min_opening <= height
ConfigsUpTo(h, w) ==
    {c \in [height : 1..h, width : 1..w, min_opening : 1..h] :
        c.min_opening <= c.height}

Configs == ConfigsUpTo(MaxHeight, MaxWidth)

\* cave = Cave(height, length, min_opening); ship = Ship(cave)
InitWith(c) ==
    /\ max_height = c.height
    /\ min_opening = c.min_opening
    /\ width = c.width
    /\ cave_buffer = [i \in 1..c.width |-> init_cave_slice(c.height, c.min_opening)]
    /\ key_frame = c.width \div 5
    /\ position = c.height \div 2
    /\ last_thrust = 0
    /\ has_crashed = FALSE
    /\ raised = "none"
    /\ pc = "getch"
    /\ screen = <<>>
    /\ falls_since_thrust = 0
    /\ live_falls = 0

Init == \E c \in Configs : InitWith(c)

----------------------------------------------------------------------------
(* The generator alone: construction, then any number of advance steps.    *)

CaveAdvance == Cave_next /\ UNCHANGED <<pc, screen>>

CaveNext == CaveAdvance

CaveSpec == Init /\ [][CaveNext]_vars

----------------------------------------------------------------------------
(* The ship alone: construction, then any sequence of thrust(), fall() and *)
(* crash() calls.                                                          *)

ShipThrust == thrust /\ UNCHANGED <<pc, screen>>
ShipFall == fall /\ UNCHANGED <<pc, screen>>
ShipCrash == crash /\ UNCHANGED <<pc, screen>>

ShipNext == ShipThrust \/ ShipFall \/ ShipCrash

ShipSpec == Init /\ [][ShipNext]_vars

----------------------------------------------------------------------------
(* The whole interface: construction, then any sequence of calls.          *)

ShipPlot == plot_position /\ UNCHANGED <<pc, screen>>
ShipClear == clear /\ UNCHANGED <<pc, screen>>

Next ==
    \/ CaveAdvance
    \/ ShipThrust
    \/ ShipFall
    \/ ShipCrash
    \/ ShipPlot
    \/ ShipClear

ApiInit == \E c \in ConfigsUpTo(ApiMaxHeight, MaxWidth) : InitWith(c)

Spec == ApiInit /\ [][Next]_vars

\* the same calls on narrow caves, which keeps the interleavings of the
\* ship's calls with the buffer's within reach
NarrowInit == \E c \in ConfigsUpTo(ApiMaxHeight, NarrowMaxWidth) : InitWith(c)

NarrowSpec == NarrowInit /\ [][Next]_vars

----------------------------------------------------------------------------
(* main(): one tick is getch -> fall or thrust -> plot_position -> clear   *)
(* -> next(cave), rendered -> the has_crashed test.                        *)

\* stdscr.clear(); then stdscr.getch() == -1: no key was pressed
GameInput ==
    /\ pc = "getch"
    /\ \E key_pressed \in BOOLEAN : IF key_pressed THEN thrust ELSE fall
    /\ screen' = <<>>
    /\ pc' = "plot"

GamePlot ==
    /\ pc = "plot"
    /\ plot_position
    /\ pc' = IF raised' = "none" THEN "clear" ELSE pc
    /\ UNCHANGED screen

GameClear ==
    /\ pc = "clear"
    /\ clear
    /\ pc' = IF raised' = "none" THEN "next" ELSE pc
    /\ UNCHANGED screen

\* next(cave), the argument of str() in stdscr.addstr(str(next(cave)))
GameAdvance ==
    /\ pc = "next"
    /\ Cave_next
    /\ pc' = IF raised' = "none" THEN "str" ELSE pc
    /\ UNCHANGED screen

\* stdscr.addstr(str(cave)); stdscr.refresh()
GameRender ==
    /\ pc = "str"
    /\ raised = "none"
    /\ \E big_is \in BOOLEAN : screen' = Cave_str(cave_buffer, big_is)
    /\ pc' = "shown"
    /\ UNCHANGED <<raised>>
    /\ UNCHANGED caveVars
    /\ UNCHANGED shipVars
    /\ UNCHANGED histVars

\* if ship.has_crashed: sys.exit(0)
GameCheck ==
    /\ pc = "shown"
    /\ raised = "none"
    /\ pc' = IF has_crashed THEN "exit" ELSE "getch"
    /\ UNCHANGED <<raised, screen>>
    /\ UNCHANGED caveVars
    /\ UNCHANGED shipVars
    /\ UNCHANGED histVars

GameNext ==
    \/ GameInput
    \/ GamePlot
    \/ GameClear
    \/ GameAdvance
    \/ GameRender
    \/ GameCheck

\* caves so tall that the ship starts on the first row past the small-integer
\* cache, with min_opening = height - 1, which keeps every slice fully open
TallConfigs ==
    LET h == 2 * (PySmallIntMax + 1)
    IN  {[height |-> h, width |-> w, min_opening |-> h - 1] : w \in 1..MaxWidth}

\* configurations with min_opening = height, whose slices no guard holds in
\* range, are followed in caves up to NarrowMaxWidth wide
GameInit ==
    \E c \in {k \in ConfigsUpTo(GameMaxHeight, MaxWidth) :
                 k.min_opening < k.height \/ k.width <= NarrowMaxWidth}
             \cup TallConfigs :
        InitWith(c)

GameSpec == GameInit /\ [][GameNext]_vars

----------------------------------------------------------------------------
(* One CaveSlice alone: a default slice, then its mutators in any order.   *)

SliceInit == \E c \in ConfigsUpTo(SliceMaxHeight, 1) : InitWith(c)

SliceCall(s) ==
    /\ raised = "none"
    /\ InSink(s)
    /\ cave_buffer' = [cave_buffer EXCEPT ![1] = s]
    /\ UNCHANGED <<max_height, min_opening, width, key_frame, raised, pc, screen>>
    /\ UNCHANGED shipVars
    /\ UNCHANGED histVars

SliceRaiseCeiling == SliceCall(raise_ceiling(cave_buffer[1]))
SliceLowerCeiling == SliceCall(lower_ceiling(cave_buffer[1]))
SliceRaiseFloor == SliceCall(raise_floor(cave_buffer[1]))
SliceLowerFloor == SliceCall(lower_floor(cave_buffer[1]))

SliceNext ==
    \/ SliceRaiseCeiling
    \/ SliceLowerCeiling
    \/ SliceRaiseFloor
    \/ SliceLowerFloor

SliceSpec == SliceInit /\ [][SliceNext]_vars

----------------------------------------------------------------------------
(* Properties                                                              *)

Abs(n) == IF n >= 0 THEN n ELSE 0 - n

Slices == {cave_buffer[i] : i \in 1..Len(cave_buffer)}

SliceInBounds(s) ==
    /\ 0 <= s.floor
    /\ s.floor <= s.ceiling
    /\ s.ceiling <= max_height - 1
    /\ s.ceiling - s.floor >= min_opening

\* C1, as stated: for every configuration with min_opening <= height, after
\* construction and any number of advance steps every slice of the buffer
\* has 0 <= floor <= ceiling <= max_height - 1 and ceiling - floor >=
\* min_opening.
C1_OpeningBound_AllConfigs == \A s \in Slices : SliceInBounds(s)

\* C1, amended: the same bounds for every configuration with
\* min_opening <= height - 1 (a default slice opens by height - 1 only).
C1_OpeningBound == min_opening <= max_height - 1 => \A s \in Slices : SliceInBounds(s)

\* a cave that can narrow, after the walk has raised the floor and lowered
\* the ceiling of its tail down to the minimum opening
C1_Witness ==
    /\ min_opening <= max_height - 1
    /\ Len(cave_buffer) = width
    /\ width >= 2
    /\ LET tail == cave_buffer[Len(cave_buffer)]
       IN  /\ tail.floor > 0
           /\ tail.ceiling < max_height - 1
           /\ tail.ceiling - tail.floor = min_opening

\* C2: no call of advance, thrust, fall, plot_position or clear raises an
\* error, for any configuration of positive integers.
C2_NoException == raised = "none"

\* C3: the buffer holds exactly width slices after construction and after
\* every advance call.
C3_BufferLength == Len(cave_buffer) = width

\* C4: once has_crashed is true, no fall() or thrust() call changes
\* position or last_thrust.
C4_CrashedShipIsFrozen ==
    [][has_crashed => (position' = position /\ last_thrust' = last_thrust)]_vars

Marked == {i \in 1..Len(cave_buffer) : cave_buffer[i].ship_position # None}

\* C5: in the game loop every rendered frame has exactly one slice carrying
\* a marker, and that marker is the ship's position.
C5_OneMarkerPerFrame ==
    pc = "shown" =>
        /\ Cardinality(Marked) = 1
        /\ \A i \in Marked : cave_buffer[i].ship_position = {position}

\* s and t differ in nothing but the ceiling, which moved by d
CeilingMoved(s, t, d) == t = [s EXCEPT !.ceiling = s.ceiling + d]

\* s and t differ in nothing but the floor, which moved by d
FloorMoved(s, t, d) == t = [s EXCEPT !.floor = s.floor + d]

\* C6: each of the four mutators is a no-op exactly at its limit
\* (raise_ceiling at ceiling = max_height - 1, lower_ceiling and raise_floor
\* at ceiling - floor = min_opening, lower_floor at floor = 0) and otherwise
\* moves its own field by exactly 1 and nothing else.
C6_MutatorClamps ==
    [][LET s == cave_buffer[1]
           t == cave_buffer'[1]
       IN  /\ SliceRaiseCeiling =>
                IF s.ceiling = max_height - 1 THEN t = s ELSE CeilingMoved(s, t, 1)
           /\ SliceLowerCeiling =>
                IF s.ceiling - s.floor = min_opening THEN t = s ELSE CeilingMoved(s, t, -1)
           /\ SliceRaiseFloor =>
                IF s.ceiling - s.floor = min_opening THEN t = s ELSE FloorMoved(s, t, 1)
           /\ SliceLowerFloor =>
                IF s.floor = 0 THEN t = s ELSE FloorMoved(s, t, -1)]_vars

\* a slice narrowed to the minimum opening away from both window edges:
\* lower_ceiling and raise_floor are at their limit, the other two are not
C6_Witness ==
    /\ width = 1
    /\ Len(cave_buffer) = 1
    /\ cave_buffer[1].ceiling - cave_buffer[1].floor = min_opening
    /\ cave_buffer[1].ceiling < max_height - 1
    /\ cave_buffer[1].floor > 0

\* C7: for a ship that is not crashed, the k-th fall() in a row since
\* last_thrust was 0 (k = falls_since_thrust + 1) subtracts (k-1)^2 from
\* position, clamped at 0, and leaves last_thrust = k.
C7_QuadraticFall ==
    [][(/\ falls_since_thrust' = falls_since_thrust + 1
        /\ ~has_crashed
        /\ live_falls = falls_since_thrust)
       => LET k == falls_since_thrust + 1
          IN  /\ position' = Max(position - (k - 1) * (k - 1), 0)
              /\ last_thrust' = k]_vars

\* three falls in a row, the third having subtracted 4 without the clamp
C7_Witness ==
    /\ ~has_crashed
    /\ falls_since_thrust = 3
    /\ live_falls = 3
    /\ position >= 1

\* C8: an advance step leaves a tail whose ceiling and floor are each
\* within 1 of the previous tail's, and so any two adjacent slices of the
\* buffer differ by at most 1 in ceiling and by at most 1 in floor.
C8_SmoothWalk ==
    /\ [](\A i \in 1..(Len(cave_buffer) - 1) :
            /\ Abs(cave_buffer[i + 1].ceiling - cave_buffer[i].ceiling) <= 1
            /\ Abs(cave_buffer[i + 1].floor - cave_buffer[i].floor) <= 1)
    /\ [][(Len(cave_buffer) >= 1 /\ Len(cave_buffer') >= 1) =>
            LET before == cave_buffer[Len(cave_buffer)]
                after == cave_buffer'[Len(cave_buffer')]
            IN  /\ Abs(after.ceiling - before.ceiling) <= 1
                /\ Abs(after.floor - before.floor) <= 1]_vars

\* a full buffer whose last two slices differ by 1 in ceiling and in floor
C8_Witness ==
    /\ Len(cave_buffer) = width
    /\ width >= 2
    /\ Abs(cave_buffer[width].ceiling - cave_buffer[width - 1].ceiling) = 1
    /\ Abs(cave_buffer[width].floor - cave_buffer[width - 1].floor) = 1

\* C9, as stated: position >= 0, last_thrust >= 0, and last_thrust is the
\* number of fall() calls since the last thrust() (or since creation).
C9_FallCounter_AllCalls ==
    /\ position >= 0
    /\ last_thrust >= 0
    /\ last_thrust = falls_since_thrust

\* C9, amended: last_thrust is the number of fall() calls made while the
\* ship was not crashed since the last thrust() (or since creation).
C9_FallCounter ==
    /\ position >= 0
    /\ last_thrust >= 0
    /\ last_thrust = live_falls

\* a crashed ship that fell before the crash and was told to fall after it
C9_Witness ==
    /\ has_crashed
    /\ live_falls >= 1
    /\ falls_since_thrust > live_falls

\* C10: for a ship that is not crashed, thrust() adds exactly 2 to
\* position, sets last_thrust to 0 and leaves has_crashed and the buffer
\* unchanged.
C10_Thrust ==
    [][(thrust /\ ~has_crashed) =>
          /\ position' = position + 2
          /\ last_thrust' = 0
          /\ has_crashed' = has_crashed
          /\ cave_buffer' = cave_buffer]_vars

\* a thrust has taken the ship above the top row of the cave
C10_Witness ==
    /\ ~has_crashed
    /\ last_thrust = 0
    /\ falls_since_thrust = 0
    /\ position > max_height - 1
    /\ position >= 2

\* the character of the text on stdscr at row r, column j of the grid
ScreenChar(r, j) == screen[(r - 1) * (width + 1) + j]

\* column j of the grid, top row first
ScreenColumn(j) == [r \in 1..(max_height + 2) |-> ScreenChar(r, j)]

\* the text is max_height + 2 lines of width characters each
ScreenIsGrid ==
    /\ Len(screen) = (max_height + 2) * (width + 1) - 1
    /\ \A k \in 1..Len(screen) : (screen[k] = "\n") <=> (k % (width + 1) = 0)

\* the column the claim describes for slice s
ColumnAsStated(s) ==
    [r \in 1..(max_height + 2) |->
        LET i == max_height - (r - 1)
        IN  IF r = 1 \/ r = max_height + 2 THEN "*"
            ELSE IF i = s.ceiling \/ i = s.floor THEN "_"
            ELSE IF s.ship_position = {i} THEN SHIP_CHAR
            ELSE " "]

\* C11: a rendered slice is max_height + 2 characters: a boundary, then for
\* each row from max_height - 1 down to 0 a wall if the row is the ceiling
\* or the floor, else the marker if the row equals the marker row, else a
\* space, then a boundary.
C11_SliceColumn ==
    pc = "shown" =>
        /\ ScreenIsGrid
        /\ \A j \in 1..width : ScreenColumn(j) = ColumnAsStated(cave_buffer[j])

\* C12: the rendered grid has max_height + 2 rows of width characters, its
\* first and last rows are all boundary characters, column j is the
\* rendering of the j-th oldest slice, and rendering changes neither the
\* buffer nor the ship.
C12_Grid ==
    /\ [](pc = "shown" =>
            /\ ScreenIsGrid
            /\ \A j \in 1..width :
                  /\ ScreenChar(1, j) = "*"
                  /\ ScreenChar(max_height + 2, j) = "*"
                  /\ \E big_is \in BOOLEAN :
                        ScreenColumn(j) = build_slice(cave_buffer[j], big_is))
    /\ [][GameRender => (/\ cave_buffer' = cave_buffer
                         /\ position' = position
                         /\ last_thrust' = last_thrust
                         /\ has_crashed' = has_crashed)]_vars

\* a frame at least five columns wide whose columns are not all alike and
\* which shows the ship
C12_Witness ==
    /\ pc = "shown"
    /\ width >= 5
    /\ \E k \in 1..Len(screen) : screen[k] = SHIP_CHAR
    /\ \E j \in 1..(width - 1) : ScreenColumn(j) # ScreenColumn(j + 1)

\* C13: once crash() has set has_crashed, it stays true whatever calls of
\* thrust, fall, plot_position, clear, crash and advance follow.
C13_CrashIsPermanent == [][has_crashed => has_crashed']_vars

\* a crashed ship that has since been told to fall, has thrust, and whose
\* position is plotted in a buffer that has advanced
C13_Witness ==
    /\ has_crashed
    /\ falls_since_thrust > live_falls
    /\ position >= 2
    /\ Len(cave_buffer) = width
    /\ Marked # {}
    /\ \E i \in 1..Len(cave_buffer) : cave_buffer[i].ceiling # max_height - 1

\* C14: in the game loop crash() is never called, so has_crashed is false in
\* every reachable state, the exit branch is never taken and the loop never
\* ends on its own.
C14_LoopNeverEnds ==
    /\ ~has_crashed
    /\ pc # "exit"
    /\ raised = "none"

\* C15: for every configuration with min_opening <= height, some finite
\* number of advance steps from the fully open buffer leaves a tail whose
\* opening is exactly min_opening.
C15_CanNarrowToMin ==
    \E s \in ReachableTails(max_height, width, min_opening) :
        s.ceiling - s.floor = min_opening

\* C16: an advance step on a buffer of width >= 2 moves every surviving
\* slice one place toward the head unchanged, appends a tail without a
\* marker and leaves the ship as it is.
C16_AdvanceShifts ==
    [][(GameAdvance /\ width >= 2) =>
          /\ Len(cave_buffer') = width
          /\ \A i \in 1..(width - 1) : cave_buffer'[i] = cave_buffer[i + 1]
          /\ cave_buffer'[width].ship_position = None
          /\ position' = position
          /\ last_thrust' = last_thrust
          /\ has_crashed' = has_crashed]_vars

\* after an advance, the marked slice has moved from the key frame to the
\* place before it, in a buffer whose tail differs from the slice before it
C16_Witness ==
    /\ pc = "str"
    /\ width >= 5
    /\ Marked = {key_frame}
    /\ cave_buffer[width].ceiling # cave_buffer[width - 1].ceiling

\* C17: in one advance the ceiling moves first and the floor guard sees the
\* moved ceiling: from a tail one row wider than min_opening, two narrowing
\* draws lower the ceiling by 1 and leave the floor; from a tail at
\* min_opening below the top row, two raising draws raise both by 1.
C17_CeilingBeforeFloor ==
    Len(cave_buffer) >= 1 =>
        LET s == last_slice(cave_buffer)
        IN  /\ s.ceiling - s.floor = min_opening + 1 =>
                 next_slice(s, FALSE, TRUE) =
                    CaveSlice(max_height, min_opening, s.ceiling - 1, s.floor)
            /\ (s.ceiling - s.floor = min_opening /\ s.ceiling < max_height - 1) =>
                 next_slice(s, TRUE, TRUE) =
                    CaveSlice(max_height, min_opening, s.ceiling + 1, s.floor + 1)

\* a tail at min_opening under the top row, appended after a slice one row
\* wider with the same raised floor (a lowering draw would have moved the
\* floor): the first case has happened and the second can happen next
C17_Witness ==
    /\ width >= 2
    /\ Len(cave_buffer) = width
    /\ LET s == cave_buffer[width - 1]
           t == cave_buffer[width]
       IN  /\ s.ceiling - s.floor = min_opening + 1
           /\ s.floor > 0
           /\ t.ceiling = s.ceiling - 1
           /\ t.floor = s.floor
           /\ t.ceiling - t.floor = min_opening
           /\ t.ceiling < max_height - 1

====
